---- MODULE Spec2Model ----
(***************************************************************************)
(* Model of the immigration draw data processor                            *)
(* (src/src/immigration_processor.py): the command-line entry point main,  *)
(* the constructor, the loader, the three transforms (score trend, pool    *)
(* trend, draw-size trend), the sorter and the writer; and of the wrapper   *)
(* around it (src/src/main.py): two triggers that each run the pipeline    *)
(* fetch, processor subprocess, upload over the same files.                *)
(*                                                                         *)
(* Python strings are modelled as sequences of one-character strings, so   *)
(* that comma removal, integer parsing, date parsing, splitting and        *)
(* lexicographic comparison are computed, not assumed.  A Python dict is   *)
(* modelled as a sequence of entries in insertion order.  The display      *)
(* metadata of a series ('type', 'mode', 'name') is a constant function of *)
(* its key and is left out.                                                *)
(***************************************************************************)
EXTENDS Integers, Sequences, FiniteSets, TLC

(***************************************************************************)
(* Bounds of the model.                                                    *)
(***************************************************************************)
\* longest record list drawn by Init
MaxRounds == 3
\* largest batch size given on the command line
MaxBatch == 3
\* how often each trigger of the wrapper starts the pipeline
MaxInvocations == 1

(***************************************************************************)
(* Characters and strings.                                                 *)
(***************************************************************************)
\* The characters the model's strings use, in ascending code point order.
CodePoints ==
    << " ", "(", ")", "+", ",", "-",
       "0", "1", "2", "3", "4", "5", "6", "7", "8", "9", ":",
       "A", "B", "C", "G", "P", "R", "S", "X", "a", "e", "g", "n", "x" >>

Ord(c) == CHOOSE i \in 1..Len(CodePoints) : CodePoints[i] = c

Digits == << "0", "1", "2", "3", "4", "5", "6", "7", "8", "9" >>

IsDigit(c) == \E i \in 1..10 : Digits[i] = c

DigitVal(c) == (CHOOSE i \in 1..10 : Digits[i] = c) - 1

\* Python's str < str: lexicographic by code point, a proper prefix is smaller.
RECURSIVE StrLess(_, _)
StrLess(s, t) ==
    IF t = << >> THEN FALSE
    ELSE IF s = << >> THEN TRUE
    ELSE IF Head(s) = Head(t) THEN StrLess(Tail(s), Tail(t))
    ELSE Ord(Head(s)) < Ord(Head(t))

\* str.replace(',', '')
RECURSIVE RemoveCommas(_)
RemoveCommas(s) ==
    IF s = << >> THEN << >>
    ELSE IF Head(s) = "," THEN RemoveCommas(Tail(s))
    ELSE << Head(s) >> \o RemoveCommas(Tail(s))

AllDigits(s) == \A i \in 1..Len(s) : IsDigit(s[i])

RECURSIVE DigitsValue(_)
DigitsValue(s) ==
    IF s = << >> THEN 0
    ELSE 10 * DigitsValue(SubSeq(s, 1, Len(s) - 1)) + DigitVal(s[Len(s)])

\* int(s) raises ValueError unless s is an optional sign and one or more digits
IntOk(s) ==
    IF s # << >> /\ Head(s) \in {"+", "-"}
    THEN Len(s) > 1 /\ AllDigits(Tail(s))
    ELSE s # << >> /\ AllDigits(s)

\* int(s), where IntOk(s)
IntVal(s) ==
    IF Head(s) = "-" THEN 0 - DigitsValue(Tail(s))
    ELSE IF Head(s) = "+" THEN DigitsValue(Tail(s))
    ELSE DigitsValue(s)

\* _parse_numeric_value(value) raises ValueError exactly when this is FALSE
parse_numeric_ok(value) == IntOk(RemoveCommas(value))

\* _parse_numeric_value(value): int(value.replace(',', ''))
parse_numeric_value(value) == IntVal(RemoveCommas(value))

\* the largest i with s[i] = " " and s[i+1] = "(", or 0: where the greedy
\* regular expression (.*)(?=\s\() ends its match
LastSpaceParen(s) ==
    LET hits == { i \in 1..(Len(s) - 1) : s[i] = " " /\ s[i + 1] = "(" }
    IN  IF hits = {} THEN 0 ELSE CHOOSE i \in hits : \A j \in hits : j <= i

\* _extract_draw_name(draw_name)
extract_draw_name(draw_name) ==
    LET p == LastSpaceParen(draw_name)
    IN  IF p = 0 THEN draw_name ELSE SubSeq(draw_name, 1, p - 1)

\* str.split('-')
RECURSIVE SplitDash(_, _)
SplitDash(s, cur) ==
    IF s = << >> THEN << cur >>
    ELSE IF Head(s) = "-" THEN << cur >> \o SplitDash(Tail(s), << >>)
    ELSE SplitDash(Tail(s), Append(cur, Head(s)))

\* '-'.join(parts)
RECURSIVE JoinDash(_)
JoinDash(parts) ==
    IF parts = << >> THEN << >>
    ELSE IF Len(parts) = 1 THEN parts[1]
    ELSE parts[1] \o << "-" >> \o JoinDash(Tail(parts))

\* '-'.join(draw_date.split('-')[:2])
YearMonth(draw_date) ==
    LET parts == SplitDash(draw_date, << >>)
    IN  JoinDash(SubSeq(parts, 1, IF Len(parts) < 2 THEN Len(parts) ELSE 2))

IsLeap(y) == (y % 4 = 0 /\ y % 100 # 0) \/ y % 400 = 0

DaysIn(y, m) ==
    IF m = 2 THEN (IF IsLeap(y) THEN 29 ELSE 28)
    ELSE IF m \in {4, 6, 9, 11} THEN 30 ELSE 31

\* datetime.strptime(s, '%Y-%m-%d') raises ValueError exactly when this is
\* FALSE: four digits, one or two digits in 1..12, one or two digits that
\* are a day of that month
DateOk(s) ==
    LET p == SplitDash(s, << >>)
    IN  /\ Len(p) = 3
        /\ Len(p[1]) = 4 /\ AllDigits(p[1]) /\ DigitsValue(p[1]) >= 1
        /\ Len(p[2]) \in {1, 2} /\ AllDigits(p[2])
        /\ DigitsValue(p[2]) \in 1..12
        /\ Len(p[3]) \in {1, 2} /\ AllDigits(p[3])
        /\ DigitsValue(p[3]) \in 1..DaysIn(DigitsValue(p[1]), DigitsValue(p[2]))

\* the sort key datetime.strptime(s, '%Y-%m-%d') as a number ordered like
\* the calendar, where DateOk(s)
DateKey(s) ==
    LET p == SplitDash(s, << >>)
    IN  DigitsValue(p[1]) * 10000 + DigitsValue(p[2]) * 100 + DigitsValue(p[3])

(***************************************************************************)
(* Dicts: a sequence of entries in insertion order.  A series collection   *)
(* has entries [k |-> key, x |-> dates, y |-> values].                     *)
(***************************************************************************)
HasKey(d, k) == \E e \in 1..Len(d) : d[e].k = k

IndexOf(d, k) == CHOOSE e \in 1..Len(d) : d[e].k = k

\* if key not in batch_data: batch_data[key] = {'x': [], 'y': [], ...}
EnsureSeries(d, k) ==
    IF HasKey(d, k) THEN d ELSE Append(d, [k |-> k, x |-> << >>, y |-> << >>])

\* batch_data[key]['x'].append(v)
AppendX(d, k, v) == [d EXCEPT ![IndexOf(d, k)].x = Append(@, v)]

\* batch_data[key]['y'].append(v)
AppendY(d, k, v) == [d EXCEPT ![IndexOf(d, k)].y = Append(@, v)]

Min(a, b) == IF a < b THEN a ELSE b

\* i in range(0, n, step); range(0, n, 0) does not occur, the constructor
\* replaces a batch size of 0
InRange(i, n, step) == IF step > 0 THEN i < n ELSE i > n

\* rounds[i:i + batch_size], where InRange(i, Len(rounds), batch_size)
Batch(rs, i, bs) ==
    IF bs > 0 THEN SubSeq(rs, i + 1, Min(i + bs, Len(rs))) ELSE << >>

(***************************************************************************)
(* Score trend: the body of the record loop and the merge of a batch.      *)
(***************************************************************************)
\* the try block of _process_crs_trends for one record: a missing field
\* raises KeyError before anything is touched; a score that does not parse
\* raises ValueError inside the argument of y.append, after x.append
crs_round(batch_data, round_data) ==
    IF ~ ({"drawName", "drawDate", "drawCRS"} \subseteq DOMAIN round_data)
    THEN batch_data
    ELSE LET name == extract_draw_name(round_data["drawName"])
             d1   == EnsureSeries(batch_data, name)
             d2   == AppendX(d1, name, round_data["drawDate"])
         IN  IF parse_numeric_ok(round_data["drawCRS"])
             THEN AppendY(d2, name, parse_numeric_value(round_data["drawCRS"]))
             ELSE d2

\* a merge that overwrites a key already accumulated instead of extending it
RECURSIVE merge_batch_overwrite(_, _)
merge_batch_overwrite(accumulated, batch_data) ==
    IF batch_data = << >> THEN accumulated
    ELSE LET v == Head(batch_data)
             a == IF HasKey(accumulated, v.k)
                  THEN [accumulated EXCEPT ![IndexOf(accumulated, v.k)] = v]
                  ELSE Append(accumulated, v)
         IN  merge_batch_overwrite(a, Tail(batch_data))

\* the merge loop: extend x and y of a key already accumulated, insert a
\* new key with the batch's series
RECURSIVE merge_batch(_, _)
merge_batch(accumulated, batch_data) ==
    IF batch_data = << >> THEN accumulated
    ELSE LET v == Head(batch_data)
             a == IF HasKey(accumulated, v.k)
                  THEN [accumulated EXCEPT
                          ![IndexOf(accumulated, v.k)].x = @ \o v.x,
                          ![IndexOf(accumulated, v.k)].y = @ \o v.y]
                  ELSE Append(accumulated, v)
         IN  merge_batch(a, Tail(batch_data))

(***************************************************************************)
(* Sorter.                                                                 *)
(***************************************************************************)
\* place index i after every index already placed whose date is not later:
\* sorted() is stable
RECURSIVE InsertIndex(_, _, _)
InsertIndex(placed, i, x) ==
    IF placed = << >> THEN << i >>
    ELSE IF DateKey(x[Head(placed)]) <= DateKey(x[i])
         THEN << Head(placed) >> \o InsertIndex(Tail(placed), i, x)
         ELSE << i >> \o placed

\* sorted(range(len(x)), key=lambda i: strptime(x[i])), indices from 1,
\* where every date of x parses
RECURSIVE SortedIndices(_, _)
SortedIndices(x, n) ==
    IF n = 0 THEN << >> ELSE InsertIndex(SortedIndices(x, n - 1), n, x)

DatesOk(x) == \A i \in 1..Len(x) : DateOk(x[i])

\* a sorter that reorders x and leaves y as it was
SortSeries_x_only(e) ==
    LET idx == SortedIndices(e.x, Len(e.x))
    IN  [e EXCEPT !.x = [i \in 1..Len(idx) |-> e.x[idx[i]]]]

\* one pass of the loop of _sort_data_by_date over a series whose dates
\* parse and whose y is long enough
SortSeries(e) ==
    LET idx == SortedIndices(e.x, Len(e.x))
    IN  [e EXCEPT !.x = [i \in 1..Len(idx) |-> e.x[idx[i]]],
                  !.y = [i \in 1..Len(idx) |-> e.y[idx[i]]]]

\* _sort_data_by_date(data): [raised, data].  A date that does not parse
\* raises ValueError in sorted(), which is caught and leaves the series as
\* it is; y[i] beyond the end of y raises IndexError, which is not caught.
RECURSIVE sort_data_by_date(_)
sort_data_by_date(data) ==
    IF data = << >> THEN [raised |-> FALSE, data |-> << >>]
    ELSE LET e == Head(data)
         IN  IF ~ DatesOk(e.x)
             THEN LET rest == sort_data_by_date(Tail(data))
                  IN  [raised |-> rest.raised, data |-> << e >> \o rest.data]
             ELSE IF Len(e.y) < Len(e.x)
             THEN [raised |-> TRUE, data |-> << >>]
             ELSE LET rest == sort_data_by_date(Tail(data))
                  IN  [raised |-> rest.raised,
                       data |-> << SortSeries(e) >> \o rest.data]

RECURSIVE InsertByKey(_, _)
InsertByKey(sorted, e) ==
    IF sorted = << >> THEN << e >>
    ELSE IF StrLess(e.k, Head(sorted).k) THEN << e >> \o sorted
    ELSE << Head(sorted) >> \o InsertByKey(Tail(sorted), e)

\* {key: data[key] for key in sorted(data.keys())}
RECURSIVE SortByKey(_)
SortByKey(data) ==
    IF data = << >> THEN << >>
    ELSE InsertByKey(SortByKey(SubSeq(data, 1, Len(data) - 1)), data[Len(data)])

\* the end of _process_crs_trends and of _process_pool_trends: sort each
\* series by date, then the collection by key; [raised, data]
finish_trends(accumulated) ==
    LET s == sort_data_by_date(accumulated)
    IN  IF s.raised THEN [raised |-> TRUE, data |-> << >>]
        ELSE [raised |-> FALSE, data |-> SortByKey(s.data)]

(***************************************************************************)
(* Pool trend.                                                             *)
(***************************************************************************)
\* CRS_POOL_RANGES
CRS_POOL_RANGES ==
    << << "6", "0", "1", "-", "1", "2", "0", "0" >>,
       << "5", "0", "1", "-", "6", "0", "0" >>,
       << "4", "5", "1", "-", "5", "0", "0" >>,
       << "4", "9", "1", "-", "5", "0", "0" >>,
       << "4", "8", "1", "-", "4", "9", "0" >>,
       << "4", "7", "1", "-", "4", "8", "0" >>,
       << "4", "6", "1", "-", "4", "7", "0" >>,
       << "4", "5", "1", "-", "4", "6", "0" >>,
       << "4", "0", "1", "-", "4", "5", "0" >>,
       << "4", "4", "1", "-", "4", "5", "0" >>,
       << "4", "3", "1", "-", "4", "4", "0" >>,
       << "4", "2", "1", "-", "4", "3", "0" >>,
       << "4", "1", "1", "-", "4", "2", "0" >>,
       << "4", "0", "1", "-", "4", "1", "0" >>,
       << "3", "5", "1", "-", "4", "0", "0" >>,
       << "3", "0", "1", "-", "3", "5", "0" >>,
       << "0", "-", "3", "0", "0" >> >>

\* f'dd{i}' for i in range(1, 18)
PoolKeys ==
    << "dd1", "dd2", "dd3", "dd4", "dd5", "dd6", "dd7", "dd8", "dd9", "dd10", "dd11", "dd12", "dd13", "dd14", "dd15", "dd16", "dd17" >>

NumPools == 17

\* f"CRS Range: {self.CRS_POOL_RANGES[i - 1]}"
PoolName(i) == << "C", "R", "S", " ", "R", "a", "n", "g", "e", ":", " " >> \o CRS_POOL_RANGES[i]

\* sum(1 for i in range(1, 18) if round_data.get(f'dd{i}', '0') == '0')
ZeroCount(round_data) ==
    Cardinality({ i \in 1..NumPools :
                    IF PoolKeys[i] \in DOMAIN round_data
                    THEN round_data[PoolKeys[i]] = << "0" >> ELSE TRUE })

\* the loop "for i in range(1, 18)" from field i on: an absent, empty or
\* zero field is passed over; int(draw_pool) raising ValueError, after
\* x.append, leaves the loop and the record (the except clause is around
\* the whole record)
RECURSIVE pool_fields(_, _, _)
pool_fields(batch_data, round_data, i) ==
    IF i > NumPools THEN batch_data
    ELSE IF PoolKeys[i] \notin DOMAIN round_data
    THEN pool_fields(batch_data, round_data, i + 1)
    ELSE LET draw_pool == RemoveCommas(round_data[PoolKeys[i]])
         IN  IF draw_pool = << >> \/ draw_pool = << "0" >>
             THEN pool_fields(batch_data, round_data, i + 1)
             ELSE LET d1 == EnsureSeries(batch_data, PoolName(i))
                      d2 == AppendX(d1, PoolName(i), round_data["drawDate"])
                  IN  IF IntOk(draw_pool)
                      THEN pool_fields(AppendY(d2, PoolName(i), IntVal(draw_pool)),
                                       round_data, i + 1)
                      ELSE d2

\* the try block of _process_pool_trends for one record
pool_round(batch_data, round_data) ==
    IF "drawDate" \notin DOMAIN round_data THEN batch_data
    ELSE IF ZeroCount(round_data) = NumPools THEN batch_data
    ELSE pool_fields(batch_data, round_data, 1)

(***************************************************************************)
(* Draw-size trend.  The two month dicts have entries [k |-> month, v].    *)
(***************************************************************************)
\* d.get(k, default)
GetOr(d, k, default) == IF HasKey(d, k) THEN d[IndexOf(d, k)].v ELSE default

\* d[k] = v
SetKey(d, k, v) ==
    IF HasKey(d, k) THEN [d EXCEPT ![IndexOf(d, k)].v = v]
    ELSE Append(d, [k |-> k, v |-> v])

\* the try block of _process_draw_size_trends for one record, on
\* m = [inv |-> draw_invitations_per_month, cand |-> candidates_per_month]:
\* the invitation sum is updated before dd18 is read and parsed
draw_round(m, round_data) ==
    IF "drawDate" \notin DOMAIN round_data THEN m
    ELSE IF "drawSize" \notin DOMAIN round_data THEN m
    ELSE IF ~ parse_numeric_ok(round_data["drawSize"]) THEN m
    ELSE LET year_month == YearMonth(round_data["drawDate"])
             draw_size  == parse_numeric_value(round_data["drawSize"])
             inv        == SetKey(m.inv, year_month,
                                  GetOr(m.inv, year_month, 0) + draw_size)
         IN  IF "dd18" \notin DOMAIN round_data
             THEN [m EXCEPT !.inv = inv]
             ELSE IF ~ parse_numeric_ok(round_data["dd18"])
             THEN [m EXCEPT !.inv = inv]
             ELSE [inv  |-> inv,
                   cand |-> SetKey(m.cand, year_month,
                                   Append(GetOr(m.cand, year_month, << >>),
                                          parse_numeric_value(round_data["dd18"])))]

RECURSIVE SumSeq(_)
SumSeq(s) == IF s = << >> THEN 0 ELSE Head(s) + SumSeq(Tail(s))

Abs(a) == IF a < 0 THEN 0 - a ELSE a

RECURSIVE Gcd(_, _)
Gcd(a, b) == IF b = 0 THEN a ELSE Gcd(b, a % b)

\* sum(candidates) / len(candidates) if candidates else 0, as the fraction
\* in lowest terms [num, den]
Mean(candidates) ==
    IF candidates = << >> THEN [num |-> 0, den |-> 1]
    ELSE LET t == SumSeq(candidates)
             g == Gcd(Abs(t), Len(candidates))
         IN  [num |-> t \div g, den |-> Len(candidates) \div g]

\* mean_candidates_per_month
MeanCandidates(cand) == [e \in 1..Len(cand) |-> [k |-> cand[e].k, v |-> Mean(cand[e].v)]]

\* a filter that keeps the months whose mean is zero
ValidMonths_keep_zero(cand) ==
    SelectSeq(MeanCandidates(cand), LAMBDA e : e.v.num >= 0)

\* valid_months: the months whose mean is > 0
ValidMonths(cand) == SelectSeq(MeanCandidates(cand), LAMBDA e : e.v.num > 0)

\* filtered_invitations
FilteredInvitations(inv, valid) ==
    SelectSeq([e \in 1..Len(valid) |->
                 [k |-> valid[e].k, has |-> HasKey(inv, valid[e].k),
                  v |-> GetOr(inv, valid[e].k, 0)]],
              LAMBDA e : e.has)

\* sorted(valid_months.keys())
SortedMonths(valid) ==
    LET s == SortByKey(valid) IN [e \in 1..Len(s) |-> s[e].k]

\* the value returned by _process_draw_size_trends: the two series, or a
\* KeyError when a month of sorted_months is not in filtered_invitations
draw_size_result(m) ==
    LET valid    == ValidMonths(m.cand)
        filtered == FilteredInvitations(m.inv, valid)
        months   == SortedMonths(valid)
    IN  IF \E e \in 1..Len(months) : ~ HasKey(filtered, months[e])
        THEN [raised |-> TRUE, data |-> << >>]
        ELSE [raised |-> FALSE,
              data |->
                << [name |-> "Draw Invitations", x |-> months,
                    y |-> [e \in 1..Len(months) |-> GetOr(filtered, months[e], 0)]],
                   [name |-> "Total(Mean) Candidates", x |-> months,
                    y |-> [e \in 1..Len(months) |-> GetOr(valid, months[e], 0)]] >>]

(***************************************************************************)
(* Inputs: the strings and records Init draws from.                        *)
(***************************************************************************)
NameA  == << "A" >>
NameAX == << "A", " ", "(", "X", ")" >>
NameB  == << "B" >>
DJan   == << "2", "0", "2", "4", "-", "0", "1", "-", "0", "5" >>
DFeb   == << "2", "0", "2", "4", "-", "0", "2", "-", "0", "1" >>
DMar   == << "2", "0", "2", "4", "-", "0", "3", "-", "1", "0" >>
\* not a calendar date: strptime raises ValueError
DBad   == << "2", "0", "2", "4", "-", "0", "2", "-", "3", "0" >>

AllZeroPools == [f \in { PoolKeys[p] : p \in 1..NumPools } |-> << "0" >>]

\* records for the score trend and the pool trend
TrendRecords ==
    { [drawName |-> NameAX, drawDate |-> DFeb, drawCRS |-> << "5" >>,
       dd1 |-> << "1", ",", "2" >>, dd3 |-> << "4" >>],
      [drawName |-> NameA, drawDate |-> DJan, drawCRS |-> << "1", ",", "2" >>,
       dd1 |-> << "7" >>, dd2 |-> << "0" >>, dd3 |-> << >>],
      [drawName |-> NameB, drawDate |-> DJan, drawCRS |-> << "7" >>,
       dd2 |-> << "3" >>, dd17 |-> << "6" >>],
      \* a score that is not a number
      [drawName |-> NameB, drawDate |-> DFeb, drawCRS |-> << "x" >>,
       dd1 |-> << "5" >>],
      \* a pool field that is not a number, between two that are
      [drawName |-> NameB, drawDate |-> DFeb, drawCRS |-> << "8" >>,
       dd1 |-> << "5" >>, dd2 |-> << "x" >>, dd3 |-> << "6" >>],
      \* a date that does not parse
      [drawName |-> NameA, drawDate |-> DBad, drawCRS |-> << "3" >>,
       dd1 |-> << "3" >>],
      \* no name, every pool zero
      [drawDate |-> DJan, drawCRS |-> << "9" >>] @@ AllZeroPools }

\* records for the draw-size trend
DrawRecords ==
    { [drawDate |-> DJan, drawSize |-> << "3" >>, dd18 |-> << "4" >>],
      [drawDate |-> DJan, drawSize |-> << "1", ",", "0" >>, dd18 |-> << "7" >>],
      [drawDate |-> DFeb, drawSize |-> << "2" >>, dd18 |-> << "0" >>],
      [drawDate |-> DMar, drawSize |-> << "9" >>, dd18 |-> << "0" >>],
      [drawDate |-> DFeb, drawSize |-> << "5" >>, dd18 |-> << "6" >>],
      \* no candidate count
      [drawDate |-> DFeb, drawSize |-> << "1" >>],
      \* a draw size that is not a number
      [drawDate |-> DJan, drawSize |-> << "x" >>, dd18 |-> << "8" >>],
      \* no date
      [drawSize |-> << "4" >>, dd18 |-> << "2" >>] }

\* whole records, well-formed and malformed, for the run as a whole
MixedRecords ==
    { [drawName |-> NameAX, drawDate |-> DFeb, drawCRS |-> << "5" >>,
       drawSize |-> << "3" >>, dd18 |-> << "4" >>, dd1 |-> << "1", ",", "2" >>],
      [drawName |-> NameA, drawDate |-> DJan, drawCRS |-> << "7" >>,
       drawSize |-> << "2" >>, dd18 |-> << "6" >>, dd1 |-> << "8" >>],
      [drawName |-> NameB, drawDate |-> DJan, drawCRS |-> << "x" >>,
       drawSize |-> << "1" >>, dd18 |-> << "0" >>, dd1 |-> << "9" >>],
      [drawDate |-> DJan, drawSize |-> << "4" >>] }

Lists(Recs) == UNION { [1..len -> Recs] : len \in 0..MaxRounds }

\* argv[3], when given
PositiveArgs    == { << Digits[b + 1] >> : b \in 1..MaxBatch }
NonPositiveArgs == { << "0" >>, << "-", "1" >> }
BadArgs         == { << "x" >> }

\* the input file: missing, not JSON, JSON without 'rounds', or as expected
InputStates == { "missing", "invalid_json", "no_rounds", "ok" }

OutputNames == { "crs_trend", "pool_trend", "draw_size" }

\* an output file before the run: absent, or left by a previous run
PriorStates == { "absent", "previous" }

NotRun == [run |-> FALSE, raised |-> FALSE, data |-> << >>]

\* the cron job of schedule_cron_job and the route /run-now
Triggers == { "timer", "http" }

\* who wrote a file: nobody (it is absent), a run before the service
\* started, or the processor of the run-th pipeline of a trigger
Absent   == [by |-> "absent", run |-> 0]
Previous == [by |-> "previous", run |-> 0]

(***************************************************************************)
(* State.                                                                  *)
(***************************************************************************)
VARIABLES
    argc,              \* len(sys.argv)
    batch_arg,         \* sys.argv[3], << >> when argc < 4
    input_file,        \* the state of the file sys.argv[1] names
    rounds,            \* the record list of the input file
    pc,                \* where the run is
    error,             \* the exception that ended the run, or "none"
    batch_size,        \* self.batch_size
    i,                 \* the batch loop's offset
    n,                 \* records of the current batch (or list) already seen
    accumulated_data,
    batch_data,
    months,            \* draw_invitations_per_month, candidates_per_month
    crs_trends,        \* the value _process_crs_trends returned
    pool_trends,       \* the value _process_pool_trends returned
    draw_size_trends,  \* the value _process_draw_size_trends returned
    files,             \* the three output files
    invocations,       \* the wrapper: the pipeline of each trigger
    disk,              \* the wrapper: INPUT_FILE and the files of OUTPUT_DIR
    blobs              \* the wrapper: the blobs of the container

vars == << argc, batch_arg, input_file, rounds, pc, error, batch_size, i, n,
           accumulated_data, batch_data, months, crs_trends, pool_trends,
           draw_size_trends, files, invocations, disk, blobs >>

wrapper == << invocations, disk, blobs >>

\* the wrapper before any trigger fires, the output files in state prior
WrapperIdle(prior) ==
    /\ invocations = [t \in Triggers |->
                        [at |-> "idle", run |-> 0, rounds |-> << >>,
                         published |-> << >>, outcome |-> "none"]]
    /\ disk = [input |-> [state |-> "missing", rounds |-> << >>],
               out   |-> [f \in OutputNames |->
                            [tag |-> IF prior = "absent" THEN Absent ELSE Previous,
                             data |-> << >>]]]
    /\ blobs = [f \in OutputNames |-> [tag |-> Absent, data |-> << >>]]

inputs == << argc, batch_arg, input_file, rounds >>
loops  == << i, n, accumulated_data, batch_data, months >>
trends == << crs_trends, pool_trends, draw_size_trends >>

\* the state before main runs, for record lists over Recs, batch size
\* arguments Args and prior states of the output files Priors.  A run that
\* ends before the loader returns never reads the record list.
StartStates(Recs, Args, Priors) ==
    /\ \/ /\ input_file = "ok"
          /\ rounds \in Lists(Recs)
          /\ \/ argc = 3 /\ batch_arg = << >>
             \/ argc = 4 /\ batch_arg \in Args
          /\ \E s \in Priors : files = [f \in OutputNames |-> [state |-> s, data |-> << >>]]
       \/ /\ input_file \in InputStates
          /\ rounds = << >>
          /\ \/ argc \in 1..3 /\ batch_arg = << >>
             \/ argc = 4 /\ batch_arg \in PositiveArgs \cup NonPositiveArgs \cup BadArgs
          /\ \E s \in PriorStates : files = [f \in OutputNames |-> [state |-> s, data |-> << >>]]
    /\ WrapperIdle("absent")
    /\ pc = "main"
    /\ error = "none"
    /\ batch_size = 0
    /\ i = 0
    /\ n = 0
    /\ accumulated_data = << >>
    /\ batch_data = << >>
    /\ months = [inv |-> << >>, cand |-> << >>]
    /\ crs_trends = NotRun
    /\ pool_trends = NotRun
    /\ draw_size_trends = NotRun

Init == StartStates(MixedRecords, PositiveArgs \cup NonPositiveArgs, PriorStates)

InitTrends == StartStates(TrendRecords, PositiveArgs, {"absent"})

InitDraw == StartStates(DrawRecords, {}, {"absent"})

(***************************************************************************)
(* main and the constructor.                                               *)
(***************************************************************************)
\* BATCH_SIZE
BATCH_SIZE == 8

Exit(e) ==
    /\ pc' = "exit1"
    /\ error' = e
    /\ UNCHANGED << wrapper, inputs, batch_size, loops, trends, files >>

\* main: fewer than two arguments
Usage ==
    /\ pc = "main"
    /\ argc < 3
    /\ Exit("usage")

\* main: int(sys.argv[3]) raises ValueError, outside the try block
BadBatchArg ==
    /\ pc = "main"
    /\ argc > 3
    /\ ~ IntOk(batch_arg)
    /\ Exit("ValueError")

ArgsOk == argc >= 3 /\ (argc > 3 => IntOk(batch_arg))

\* __init__: batch_size or self.BATCH_SIZE
InitBatchSize(batch) == IF batch = 0 THEN BATCH_SIZE ELSE batch

\* __init__: the input file does not exist
ConstructFail ==
    /\ pc = "main"
    /\ ArgsOk
    /\ input_file = "missing"
    /\ Exit("FileNotFoundError")

\* __init__ returns; None is modelled by 0, which "or" treats alike
Construct ==
    /\ pc = "main"
    /\ ArgsOk
    /\ input_file # "missing"
    /\ batch_size' = InitBatchSize(IF argc > 3 THEN IntVal(batch_arg) ELSE 0)
    /\ pc' = "load"
    /\ UNCHANGED << wrapper, inputs, error, loops, trends, files >>

(***************************************************************************)
(* Loader.                                                                 *)
(***************************************************************************)
\* a loader that does not check for 'rounds'
load_data_no_key_check(file) ==
    IF file = "invalid_json" THEN "JSONDecodeError" ELSE "ok"

\* _load_data: "ok", or the exception it raises
load_data(file) ==
    IF file = "invalid_json" THEN "JSONDecodeError"
    ELSE IF file = "no_rounds" THEN "ValueError"
    ELSE "ok"

LoadFail ==
    /\ pc = "load"
    /\ load_data(input_file) # "ok"
    /\ Exit(load_data(input_file))

Load ==
    /\ pc = "load"
    /\ load_data(input_file) = "ok"
    /\ pc' = "crs"
    /\ i' = 0
    /\ n' = 0
    /\ accumulated_data' = << >>
    /\ batch_data' = << >>
    /\ UNCHANGED << wrapper, inputs, error, batch_size, months, trends, files >>

(***************************************************************************)
(* The run: process_all_trends, one step per record, merge and return.     *)
(***************************************************************************)
\* _save_json_data(data, self.OUTPUT_PATHS[name])
save_json_data(fs, name, data) ==
    [fs EXCEPT ![name] = [state |-> "written", data |-> data]]

Ran(r) == [run |-> TRUE, raised |-> r.raised, data |-> r.data]

\* _process_crs_trends: the next record of the current batch
CrsRound ==
    /\ pc = "crs"
    /\ InRange(i, Len(rounds), batch_size)
    /\ n < Len(Batch(rounds, i, batch_size))
    /\ batch_data' = crs_round(batch_data, Batch(rounds, i, batch_size)[n + 1])
    /\ n' = n + 1
    /\ UNCHANGED << wrapper, inputs, pc, error, batch_size, i, accumulated_data, months,
                    trends, files >>

\* _process_crs_trends: the batch is merged and the next one starts
CrsMerge ==
    /\ pc = "crs"
    /\ InRange(i, Len(rounds), batch_size)
    /\ n = Len(Batch(rounds, i, batch_size))
    /\ accumulated_data' = merge_batch(accumulated_data, batch_data)
    /\ batch_data' = << >>
    /\ i' = i + batch_size
    /\ n' = 0
    /\ UNCHANGED << wrapper, inputs, pc, error, batch_size, months, trends, files >>

\* _process_crs_trends sorts and returns, and the result is saved; an
\* exception of the sorter ends the run
CrsFinish ==
    /\ pc = "crs"
    /\ ~ InRange(i, Len(rounds), batch_size)
    /\ LET r == finish_trends(accumulated_data)
       IN  /\ crs_trends' = Ran(r)
           /\ IF r.raised
              THEN /\ pc' = "exit1"
                   /\ error' = "IndexError"
                   /\ UNCHANGED << files, accumulated_data >>
              ELSE /\ pc' = "pool"
                   /\ error' = error
                   /\ files' = save_json_data(files, "crs_trend", r.data)
                   /\ accumulated_data' = << >>
    /\ i' = 0
    /\ n' = 0
    /\ batch_data' = << >>
    /\ UNCHANGED << wrapper, inputs, batch_size, months, pool_trends, draw_size_trends >>

\* _process_pool_trends: the next record of the current batch
PoolRound ==
    /\ pc = "pool"
    /\ InRange(i, Len(rounds), batch_size)
    /\ n < Len(Batch(rounds, i, batch_size))
    /\ batch_data' = pool_round(batch_data, Batch(rounds, i, batch_size)[n + 1])
    /\ n' = n + 1
    /\ UNCHANGED << wrapper, inputs, pc, error, batch_size, i, accumulated_data, months,
                    trends, files >>

\* _process_pool_trends: the batch is merged and the next one starts
PoolMerge ==
    /\ pc = "pool"
    /\ InRange(i, Len(rounds), batch_size)
    /\ n = Len(Batch(rounds, i, batch_size))
    /\ accumulated_data' = merge_batch(accumulated_data, batch_data)
    /\ batch_data' = << >>
    /\ i' = i + batch_size
    /\ n' = 0
    /\ UNCHANGED << wrapper, inputs, pc, error, batch_size, months, trends, files >>

\* _process_pool_trends sorts and returns, and the result is saved
PoolFinish ==
    /\ pc = "pool"
    /\ ~ InRange(i, Len(rounds), batch_size)
    /\ LET r == finish_trends(accumulated_data)
       IN  /\ pool_trends' = Ran(r)
           /\ IF r.raised
              THEN /\ pc' = "exit1"
                   /\ error' = "IndexError"
                   /\ UNCHANGED << files, accumulated_data >>
              ELSE /\ pc' = "draw"
                   /\ error' = error
                   /\ files' = save_json_data(files, "pool_trend", r.data)
                   /\ accumulated_data' = << >>
    /\ i' = 0
    /\ n' = 0
    /\ batch_data' = << >>
    /\ months' = [inv |-> << >>, cand |-> << >>]
    /\ UNCHANGED << wrapper, inputs, batch_size, crs_trends, draw_size_trends >>

\* _process_draw_size_trends: the next record
DrawRound ==
    /\ pc = "draw"
    /\ n < Len(rounds)
    /\ months' = draw_round(months, rounds[n + 1])
    /\ n' = n + 1
    /\ UNCHANGED << wrapper, inputs, pc, error, batch_size, i, accumulated_data,
                    batch_data, trends, files >>

\* _process_draw_size_trends returns, and the result is saved
DrawFinish ==
    /\ pc = "draw"
    /\ n = Len(rounds)
    /\ LET r == draw_size_result(months)
       IN  /\ draw_size_trends' = Ran(r)
           /\ IF r.raised
              THEN /\ pc' = "exit1"
                   /\ error' = "KeyError"
                   /\ files' = files
              ELSE /\ pc' = "exit0"
                   /\ error' = error
                   /\ files' = save_json_data(files, "draw_size", r.data)
    /\ UNCHANGED << wrapper, inputs, batch_size, loops, crs_trends, pool_trends >>

Next ==
    \/ Usage
    \/ BadBatchArg
    \/ ConstructFail
    \/ Construct
    \/ LoadFail
    \/ Load
    \/ CrsRound
    \/ CrsMerge
    \/ CrsFinish
    \/ PoolRound
    \/ PoolMerge
    \/ PoolFinish
    \/ DrawRound
    \/ DrawFinish

\* the run as a whole, over whole records
Spec == Init /\ [][Next]_vars

\* the run over records that exercise the score trend and the pool trend
SpecTrends == InitTrends /\ [][Next]_vars

\* the run over records that exercise the draw-size trend
SpecDraw == InitDraw /\ [][Next]_vars

(***************************************************************************)
(* The transforms as functions of the record list and the batch size,      *)
(* built from the same steps as the actions above.                         *)
(***************************************************************************)
\* the try block of the transform named: "crs", "pool" or "draw"
round_step(transform, acc, round_data) ==
    IF transform = "crs" THEN crs_round(acc, round_data)
    ELSE IF transform = "pool" THEN pool_round(acc, round_data)
    ELSE draw_round(acc, round_data)

\* for round_data in rs
RECURSIVE FoldRounds(_, _, _)
FoldRounds(transform, acc, rs) ==
    IF rs = << >> THEN acc
    ELSE FoldRounds(transform, round_step(transform, acc, Head(rs)), Tail(rs))

\* the batch loop from offset k on
RECURSIVE Accumulate(_, _, _, _, _)
Accumulate(transform, rs, bs, k, acc) ==
    IF ~ InRange(k, Len(rs), bs) THEN acc
    ELSE Accumulate(transform, rs, bs, k + bs,
                    merge_batch(acc, FoldRounds(transform, << >>, Batch(rs, k, bs))))

\* _process_crs_trends(rounds) with self.batch_size = bs
process_crs_trends(rs, bs) ==
    finish_trends(Accumulate("crs", rs, bs, 0, << >>))

\* _process_pool_trends(rounds) with self.batch_size = bs
process_pool_trends(rs, bs) ==
    finish_trends(Accumulate("pool", rs, bs, 0, << >>))

\* _process_draw_size_trends(rounds)
process_draw_size_trends(rs) ==
    draw_size_result(FoldRounds("draw", [inv |-> << >>, cand |-> << >>], rs))

(***************************************************************************)
(* Helpers of the properties.                                              *)
(***************************************************************************)
Returned(t) == [raised |-> t.raised, data |-> t.data]

Keys(d) == { d[e].k : e \in 1..Len(d) }

Entry(d, k) == d[IndexOf(d, k)]

\* the (date, value) pairs of a series whose x and y are equally long
Pairs(e) == [p \in 1..Len(e.x) |-> << e.x[p], e.y[p] >>]

Count(s, v) == Cardinality({ p \in 1..Len(s) : s[p] = v })

SameBag(s, t) ==
    /\ Len(s) = Len(t)
    /\ \A p \in 1..Len(s) : Count(s, s[p]) = Count(t, s[p])

DateAscending(x) ==
    \A p \in 1..Len(x), q \in 1..Len(x) : p < q => DateKey(x[p]) <= DateKey(x[q])

KeyAscending(d) ==
    \A p \in 1..Len(d), q \in 1..Len(d) : p < q => StrLess(d[p].k, d[q].k)

AllWritten == \A f \in OutputNames : files[f].state = "written"

NoneWritten == \A f \in OutputNames : files[f].state \in PriorStates

\* the state in which _process_crs_trends, _process_pool_trends has just
\* returned or raised; its result, the record list and the batch size do
\* not change afterwards
CrsReturns == crs_trends.run /\ ~ pool_trends.run /\ i = 0 /\ n = 0

PoolReturns == pool_trends.run /\ ~ draw_size_trends.run /\ i = 0 /\ n = 0

(***************************************************************************)
(* C1: batching is output-invariant.  Whatever positive batch size the run *)
(* used, the score trend and the pool trend return what they return with   *)
(* batch size 1 and with batch size N = the length of the record list      *)
(* (the same keys in the same order with the same x and y, or the same     *)
(* failure), malformed records included.                                   *)
(***************************************************************************)
C1_BatchingIsOutputInvariant ==
    /\ CrsReturns =>
         /\ Returned(crs_trends) = process_crs_trends(rounds, 1)
         /\ Len(rounds) >= 1 =>
              Returned(crs_trends) = process_crs_trends(rounds, Len(rounds))
    /\ PoolReturns =>
         /\ Returned(pool_trends) = process_pool_trends(rounds, 1)
         /\ Len(rounds) >= 1 =>
              Returned(pool_trends) = process_pool_trends(rounds, Len(rounds))

\* a run with batch size 2 over three records, the first without a name,
\* in which a key of each trend is built from both batches and reordered
C1_Witness ==
    /\ pc = "exit0"
    /\ batch_size = 2
    /\ Len(rounds) = 3
    /\ "drawName" \notin DOMAIN rounds[1]
    /\ \E e \in 1..Len(crs_trends.data) : crs_trends.data[e].y = << 12, 5 >>
    /\ \E e \in 1..Len(pool_trends.data) : pool_trends.data[e].y = << 7, 12 >>

(***************************************************************************)
(* C2: every series built by any of the three transforms has               *)
(* len(x) = len(y), while it is accumulated, merged and sorted and in the  *)
(* output.                                                                 *)
(***************************************************************************)
C2_ParallelSequences ==
    /\ \A e \in 1..Len(batch_data) : Len(batch_data[e].x) = Len(batch_data[e].y)
    /\ \A e \in 1..Len(accumulated_data) :
         Len(accumulated_data[e].x) = Len(accumulated_data[e].y)
    /\ \A e \in 1..Len(crs_trends.data) :
         Len(crs_trends.data[e].x) = Len(crs_trends.data[e].y)
    /\ \A e \in 1..Len(pool_trends.data) :
         Len(pool_trends.data[e].x) = Len(pool_trends.data[e].y)
    /\ \A e \in 1..Len(draw_size_trends.data) :
         Len(draw_size_trends.data[e].x) = Len(draw_size_trends.data[e].y)

(***************************************************************************)
(* C3: no malformed record aborts the run.  With the arguments and the     *)
(* input file in order, the run never ends in failure, and when it ends    *)
(* all three outputs are written.                                          *)
(***************************************************************************)
C3_MalformedRecordNeverAborts ==
    (ArgsOk /\ input_file = "ok") =>
        /\ pc # "exit1"
        /\ pc = "exit0" => AllWritten

(***************************************************************************)
(* C4: a skipped record contributes nothing.  The score trend is the score *)
(* trend of the record list without the records that miss name, date or    *)
(* score or whose score is not a number; the draw-size trend is the        *)
(* draw-size trend of the record list without the records that miss date,  *)
(* draw size or candidate count.                                           *)
(***************************************************************************)
CrsSkipped(r) ==
    \/ ~ ({"drawName", "drawDate", "drawCRS"} \subseteq DOMAIN r)
    \/ ~ parse_numeric_ok(r["drawCRS"])

DrawSkipped(r) == ~ ({"drawDate", "drawSize", "dd18"} \subseteq DOMAIN r)

C4_SkippedRecordContributesNothing ==
    /\ crs_trends.run =>
         Returned(crs_trends) =
           process_crs_trends(SelectSeq(rounds, LAMBDA r : ~ CrsSkipped(r)),
                              batch_size)
    /\ draw_size_trends.run =>
         Returned(draw_size_trends) =
           process_draw_size_trends(SelectSeq(rounds, LAMBDA r : ~ DrawSkipped(r)))

\* the draw-size half of C4 alone
C4_DrawSkippedContributesNothing ==
    draw_size_trends.run =>
         Returned(draw_size_trends) =
           process_draw_size_trends(SelectSeq(rounds, LAMBDA r : ~ DrawSkipped(r)))

(***************************************************************************)
(* C5: the 17 pool fields of a record are handled independently.  While    *)
(* the records of a batch are accumulated, the values under each range key *)
(* are the values of that field in the records seen so far in which the    *)
(* field is present, not empty, not "0" and a number, whatever the other   *)
(* fields of those records hold.                                           *)
(***************************************************************************)
PoolFieldGood(r, p) ==
    /\ PoolKeys[p] \in DOMAIN r
    /\ RemoveCommas(r[PoolKeys[p]]) \notin { << >>, << "0" >> }
    /\ IntOk(RemoveCommas(r[PoolKeys[p]]))

\* the records of rs that the pool trend does not skip as a whole
PoolTaken(rs) ==
    SelectSeq(rs, LAMBDA r : "drawDate" \in DOMAIN r /\ ZeroCount(r) < NumPools)

ExpectedPoolValues(rs, p) ==
    LET good == SelectSeq(PoolTaken(rs), LAMBDA r : PoolFieldGood(r, p))
    IN  [q \in 1..Len(good) |-> IntVal(RemoveCommas(good[q][PoolKeys[p]]))]

C5_PoolFieldsIndependent ==
    pc = "pool" =>
        \A p \in 1..NumPools :
            (IF HasKey(batch_data, PoolName(p))
             THEN Entry(batch_data, PoolName(p)).y ELSE << >>)
            = ExpectedPoolValues(SubSeq(Batch(rounds, i, batch_size), 1, n), p)

(***************************************************************************)
(* C6: a batch size of zero or below is rejected: the run ends in failure  *)
(* before anything is loaded, no transform runs and no output is written.  *)
(***************************************************************************)
C6_NonPositiveBatchSizeRejected ==
    (argc > 3 /\ IntOk(batch_arg) /\ IntVal(batch_arg) <= 0 /\ pc # "main") =>
        /\ pc = "exit1"
        /\ NoneWritten

(***************************************************************************)
(* C7: every series of the score trend and of the pool trend whose dates   *)
(* all parse is the date-ascending reordering of the pairs accumulated for *)
(* its key: x is non-decreasing as calendar dates, x and y are equally     *)
(* long, and the (x[i], y[i]) pairs are the accumulated pairs, none lost   *)
(* and none duplicated.                                                    *)
(***************************************************************************)
\* the series of key e.k in the output is e reordered by date
IsDateSorted(out, e) ==
    /\ HasKey(out, e.k)
    /\ Len(Entry(out, e.k).x) = Len(Entry(out, e.k).y)
    /\ Len(e.x) = Len(e.y)
    /\ DateAscending(Entry(out, e.k).x)
    /\ SameBag(Pairs(Entry(out, e.k)), Pairs(e))

\* what the score trend and the pool trend accumulate before they sort
CrsAccumulated == Accumulate("crs", rounds, batch_size, 0, << >>)

PoolAccumulated == Accumulate("pool", rounds, batch_size, 0, << >>)

C7_SeriesSortedByDate ==
    /\ (CrsReturns /\ ~ crs_trends.raised) =>
         /\ Keys(crs_trends.data) = Keys(CrsAccumulated)
         /\ \A e \in 1..Len(CrsAccumulated) :
              DatesOk(CrsAccumulated[e].x) =>
                  IsDateSorted(crs_trends.data, CrsAccumulated[e])
    /\ (PoolReturns /\ ~ pool_trends.raised) =>
         /\ Keys(pool_trends.data) = Keys(PoolAccumulated)
         /\ \A e \in 1..Len(PoolAccumulated) :
              DatesOk(PoolAccumulated[e].x) =>
                  IsDateSorted(pool_trends.data, PoolAccumulated[e])

\* the record of February with score 5 before the record of January with
\* score 1,2 under one key: the series comes out as January, February with
\* y = 12, 5; and a pool series comes out reordered too
C7_Witness ==
    /\ pc = "exit0"
    /\ Len(rounds) = 2
    /\ rounds[1]["drawDate"] = DFeb
    /\ rounds[2]["drawDate"] = DJan
    /\ crs_trends.data = << [k |-> NameA, x |-> << DJan, DFeb >>, y |-> << 12, 5 >>] >>
    /\ \E e \in 1..Len(pool_trends.data) :
         /\ pool_trends.data[e].x = << DJan, DFeb >>
         /\ pool_trends.data[e].y = << 7, 12 >>

(***************************************************************************)
(* C8: in the draw-size trend a month whose candidate list is empty or     *)
(* absent or whose mean candidate count is zero is in neither series; the  *)
(* two series have the same ascending month list as x, and one y per       *)
(* month: the invitation sum of the month and its mean candidate count.    *)
(***************************************************************************)
\* the records whose draw size the loop adds to their month
DrawCounted(rs) ==
    SelectSeq(rs, LAMBDA r : /\ {"drawDate", "drawSize"} \subseteq DOMAIN r
                             /\ parse_numeric_ok(r["drawSize"]))

\* the records whose candidate count the loop appends to their month
DrawComplete(rs) ==
    SelectSeq(DrawCounted(rs), LAMBDA r : /\ "dd18" \in DOMAIN r
                                          /\ parse_numeric_ok(r["dd18"]))

InMonth(rs, month) == SelectSeq(rs, LAMBDA r : YearMonth(r["drawDate"]) = month)

InvitationSum(rs, month) ==
    LET c == InMonth(DrawCounted(rs), month)
    IN  SumSeq([q \in 1..Len(c) |-> parse_numeric_value(c[q]["drawSize"])])

CandidateList(rs, month) ==
    LET c == InMonth(DrawComplete(rs), month)
    IN  [q \in 1..Len(c) |-> parse_numeric_value(c[q]["dd18"])]

\* the months with a candidate list that is not empty and a mean above zero
SurvivingMonths(rs) ==
    { YearMonth(rs[q]["drawDate"]) :
        q \in { q \in 1..Len(rs) :
                  /\ "drawDate" \in DOMAIN rs[q]
                  /\ CandidateList(rs, YearMonth(rs[q]["drawDate"])) # << >>
                  /\ SumSeq(CandidateList(rs, YearMonth(rs[q]["drawDate"]))) > 0 } }

C8_DrawSizeMonths ==
    draw_size_trends.run =>
        /\ ~ draw_size_trends.raised
        /\ Len(draw_size_trends.data) = 2
        /\ LET inv  == draw_size_trends.data[1]
               cand == draw_size_trends.data[2]
           IN  /\ inv.x = cand.x
               /\ { inv.x[q] : q \in 1..Len(inv.x) } = SurvivingMonths(rounds)
               /\ \A q \in 1..Len(inv.x), t \in 1..Len(inv.x) :
                    q < t => StrLess(inv.x[q], inv.x[t])
               /\ Len(inv.y) = Len(inv.x)
               /\ Len(cand.y) = Len(cand.x)
               /\ \A q \in 1..Len(inv.x) :
                    /\ inv.y[q] = InvitationSum(rounds, inv.x[q])
                    /\ cand.y[q] = Mean(CandidateList(rounds, inv.x[q]))
                    /\ cand.y[q].num > 0

\* March, February, January in the list: March, whose mean is zero, is
\* dropped, and January comes out before February
C8_Witness ==
    /\ pc = "exit0"
    /\ Len(rounds) = 3
    /\ rounds[1] = [drawDate |-> DMar, drawSize |-> << "9" >>, dd18 |-> << "0" >>]
    /\ rounds[2] = [drawDate |-> DFeb, drawSize |-> << "5" >>, dd18 |-> << "6" >>]
    /\ draw_size_trends.data[1].x = << YearMonth(DJan), YearMonth(DFeb) >>
    /\ draw_size_trends.data[1].y = << 10, 5 >>
    /\ draw_size_trends.data[2].y = << [num |-> 7, den |-> 1], [num |-> 6, den |-> 1] >>

(***************************************************************************)
(* C9: when a series holds a date that does not parse, the transform       *)
(* still returns: that series keeps x and y in accumulation order, every   *)
(* other series is sorted by date, and the collection is ordered by key.   *)
(***************************************************************************)
SoftSortFailure(t, acc) ==
    (\E e \in 1..Len(acc) : ~ DatesOk(acc[e].x)) =>
        /\ ~ t.raised
        /\ Keys(t.data) = Keys(acc)
        /\ KeyAscending(t.data)
        /\ \A e \in 1..Len(acc) :
             IF DatesOk(acc[e].x)
             THEN IsDateSorted(t.data, acc[e])
             ELSE /\ HasKey(t.data, acc[e].k)
                  /\ Entry(t.data, acc[e].k).x = acc[e].x
                  /\ Entry(t.data, acc[e].k).y = acc[e].y

C9_UnparsableDateSkipsOnlyItsSeries ==
    /\ crs_trends.run => SoftSortFailure(crs_trends, CrsAccumulated)
    /\ pool_trends.run => SoftSortFailure(pool_trends, PoolAccumulated)

(***************************************************************************)
(* C10: when the input file is missing, is not valid JSON or has no        *)
(* 'rounds', the run fails before any transform: no transform starts, no   *)
(* output file is created or modified, and the run ends with exit status 1.*)
(***************************************************************************)
C10_BadInputFailsBeforeTransforms ==
    input_file # "ok" =>
        /\ pc \in {"main", "load", "exit1"}
        /\ crs_trends = NotRun /\ pool_trends = NotRun /\ draw_size_trends = NotRun
        /\ accumulated_data = << >> /\ batch_data = << >>
        /\ NoneWritten
        /\ pc = "exit1" \/ ENABLED Next

\* an input without 'rounds', the outputs of a previous run in place, the
\* run ended by the loader's ValueError
C10_Witness ==
    /\ input_file = "no_rounds"
    /\ pc = "exit1"
    /\ error = "ValueError"
    /\ \A f \in OutputNames : files[f].state = "previous"

(***************************************************************************)
(* The wrapper (src/src/main.py): each trigger runs orchestrate, that is   *)
(* fetch_data, run_processor and upload_to_blob, over the same INPUT_FILE  *)
(* and OUTPUT_DIR.  The cron job runs in the scheduler's thread, the route *)
(* in the server's event loop, and the processor is a subprocess of its    *)
(* own each time: nothing orders the steps of one pipeline against the     *)
(* steps of the other.                                                     *)
(***************************************************************************)
\* FILES_TO_UPLOAD, by the keys of OUTPUT_PATHS
FILES_TO_UPLOAD == << "crs_trend", "pool_trend", "draw_size" >>

RoundFeb ==
    [drawName |-> NameAX, drawDate |-> DFeb, drawCRS |-> << "5" >>,
     drawSize |-> << "3" >>, dd18 |-> << "4" >>, dd1 |-> << "1", ",", "2" >>]

RoundJan ==
    [drawName |-> NameA, drawDate |-> DJan, drawCRS |-> << "7" >>,
     drawSize |-> << "2" >>, dd18 |-> << "6" >>, dd1 |-> << "8" >>]

\* its pool field is not a number: the pool trend raises, after the score
\* trend was saved
RoundBadPool ==
    [drawName |-> NameB, drawDate |-> DJan, drawCRS |-> << "9" >>,
     drawSize |-> << "1" >>, dd18 |-> << "2" >>, dd1 |-> << "x" >>]

\* what the GET of fetch_data can return and write to INPUT_FILE
FetchedDocuments ==
    { [state |-> "ok", rounds |-> << RoundFeb >>],
      [state |-> "ok", rounds |-> << RoundJan >>],
      [state |-> "ok", rounds |-> << RoundBadPool >>],
      [state |-> "invalid_json", rounds |-> << >>] }

Other(t) == CHOOSE q \in Triggers : q # t

\* the processor's transform behind each output file, with the batch size
\* the constructor takes when none is given
TransformOf(f, rs) ==
    IF f = "crs_trend" THEN process_crs_trends(rs, InitBatchSize(0))
    ELSE IF f = "pool_trend" THEN process_pool_trends(rs, InitBatchSize(0))
    ELSE process_draw_size_trends(rs)

\* a run_processor that lets a failed subprocess pass
run_processor_unchecked(returncode) == FALSE

\* run_processor: subprocess.run(..., check=True) raises CalledProcessError
\* exactly when the subprocess exits non-zero
run_processor_raises(returncode) == returncode # 0

\* schedule_cron_job's job or manual_trigger starts orchestrate
Trigger ==
    \E t \in Triggers :
        /\ invocations[t].at = "idle"
        /\ invocations[t].run < MaxInvocations
        /\ invocations' = [invocations EXCEPT ![t] =
                             [at |-> "fetch", run |-> @.run + 1, rounds |-> << >>,
                              published |-> << >>, outcome |-> "none"]]
        /\ UNCHANGED << disk, blobs >>
        /\ UNCHANGED << inputs, pc, error, batch_size, loops, trends, files >>

\* fetch_data: the response is written to INPUT_FILE
FetchData ==
    \E t \in Triggers, doc \in FetchedDocuments :
        /\ invocations[t].at = "fetch"
        /\ disk' = [disk EXCEPT !.input = doc]
        /\ invocations' = [invocations EXCEPT ![t].at = "load"]
        /\ UNCHANGED blobs
        /\ UNCHANGED << inputs, pc, error, batch_size, loops, trends, files >>

\* fetch_data raises: orchestrate ends
FetchError ==
    \E t \in Triggers :
        /\ invocations[t].at = "fetch"
        /\ invocations' = [invocations EXCEPT ![t].at = "idle",
                                              ![t].outcome = "fetch_failed"]
        /\ UNCHANGED << disk, blobs >>
        /\ UNCHANGED << inputs, pc, error, batch_size, loops, trends, files >>

\* the subprocess of t has exited with returncode: run_processor raises or
\* returns, and orchestrate ends or goes on to upload_to_blob
AfterProcessor(inv, returncode) ==
    IF run_processor_raises(returncode)
    THEN [inv EXCEPT !.at = "idle", !.outcome = "processor_failed"]
    ELSE [inv EXCEPT !.at = "upload"]

\* the subprocess: __init__ and _load_data read INPUT_FILE as it is now
ProcessorLoad ==
    \E t \in Triggers :
        /\ invocations[t].at = "load"
        /\ invocations' = [invocations EXCEPT ![t] =
                             IF disk.input.state # "missing"
                                /\ load_data(disk.input.state) = "ok"
                             THEN [@ EXCEPT !.at = FILES_TO_UPLOAD[1],
                                            !.rounds = disk.input.rounds]
                             ELSE AfterProcessor(@, 1)]
        /\ UNCHANGED << disk, blobs >>
        /\ UNCHANGED << inputs, pc, error, batch_size, loops, trends, files >>

\* the subprocess: process_all_trends runs the next transform and saves its
\* result, or the transform raises and the subprocess exits 1
ProcessorWrite ==
    \E t \in Triggers, k \in 1..Len(FILES_TO_UPLOAD) :
        /\ invocations[t].at = FILES_TO_UPLOAD[k]
        /\ LET r == TransformOf(FILES_TO_UPLOAD[k], invocations[t].rounds)
           IN  IF r.raised
               THEN /\ invocations' = [invocations EXCEPT ![t] = AfterProcessor(@, 1)]
                    /\ disk' = disk
               ELSE /\ disk' = [disk EXCEPT !.out[FILES_TO_UPLOAD[k]] =
                                  [tag  |-> [by |-> t, run |-> invocations[t].run],
                                   data |-> r.data]]
                    /\ invocations' = [invocations EXCEPT ![t] =
                                         IF k < Len(FILES_TO_UPLOAD)
                                         THEN [@ EXCEPT !.at = FILES_TO_UPLOAD[k + 1]]
                                         ELSE AfterProcessor(@, 0)]
        /\ UNCHANGED blobs
        /\ UNCHANGED << inputs, pc, error, batch_size, loops, trends, files >>

\* upload_to_blob: the next file of FILES_TO_UPLOAD is uploaded as it is
\* now, or passed over when it does not exist
Upload ==
    \E t \in Triggers :
        /\ invocations[t].at = "upload"
        /\ LET f == FILES_TO_UPLOAD[Len(invocations[t].published) + 1]
           IN  /\ blobs' = IF disk.out[f].tag # Absent
                           THEN [blobs EXCEPT ![f] = disk.out[f]]
                           ELSE blobs
               /\ invocations' = [invocations EXCEPT ![t] =
                    [@ EXCEPT !.published = Append(@, disk.out[f].tag),
                              !.at = IF Len(invocations[t].published) + 1
                                        = Len(FILES_TO_UPLOAD)
                                     THEN "idle" ELSE "upload",
                              !.outcome = IF Len(invocations[t].published) + 1
                                             = Len(FILES_TO_UPLOAD)
                                          THEN "uploaded" ELSE @]]
        /\ UNCHANGED disk
        /\ UNCHANGED << inputs, pc, error, batch_size, loops, trends, files >>

NextWrapper ==
    \/ Trigger
    \/ FetchData
    \/ FetchError
    \/ ProcessorLoad
    \/ ProcessorWrite
    \/ Upload

\* the service after start-up, the output directory empty or holding the
\* files of an earlier run; the command-line run of the sections above is
\* not part of it
InitWrapper ==
    /\ \E prior \in PriorStates : WrapperIdle(prior)
    /\ argc = 3
    /\ batch_arg = << >>
    /\ input_file = "ok"
    /\ rounds = << >>
    /\ files = [f \in OutputNames |-> [state |-> "absent", data |-> << >>]]
    /\ pc = "main"
    /\ error = "none"
    /\ batch_size = 0
    /\ i = 0
    /\ n = 0
    /\ accumulated_data = << >>
    /\ batch_data = << >>
    /\ months = [inv |-> << >>, cand |-> << >>]
    /\ crs_trends = NotRun
    /\ pool_trends = NotRun
    /\ draw_size_trends = NotRun

\* the two triggers and their pipelines, interleaved freely
SpecWrapper == InitWrapper /\ [][NextWrapper]_vars

(***************************************************************************)
(* C11: concurrent pipelines are not guarded against and race on the same  *)
(* files.  A pipeline uploads only files that its own processor run or a   *)
(* processor run of the other trigger wrote (never a file left from        *)
(* before, never a missing one), so a published set that mixes runs comes  *)
(* from the race alone; and the race does happen (C11_Witness): one        *)
(* pipeline uploads while the other's processor has rewritten only the     *)
(* first file, and publishes files of two runs.                            *)
(***************************************************************************)
C11_PublishedFromOwnRunOrTheRace ==
    \A t \in Triggers :
        \A k \in 1..Len(invocations[t].published) :
            LET g == invocations[t].published[k]
            IN  \/ g = [by |-> t, run |-> invocations[t].run]
                \/ g.by = Other(t)

\* t has uploaded all three files while the processor of the other trigger
\* had rewritten the score trend and not yet the pool trend: the published
\* score trend is of the other run and of other data than the rest
C11_Witness ==
    \E t \in Triggers :
        /\ invocations[t].outcome = "uploaded"
        /\ invocations[Other(t)].at = "pool_trend"
        /\ invocations[t].published =
             << [by |-> Other(t), run |-> 1], [by |-> t, run |-> 1],
                [by |-> t, run |-> 1] >>
        /\ \A f \in OutputNames : blobs[f] = disk.out[f]
        /\ invocations[t].rounds = << RoundFeb >>
        /\ invocations[Other(t)].rounds = << RoundJan >>
        /\ blobs["crs_trend"].data =
             << [k |-> NameA, x |-> << DJan >>, y |-> << 7 >>] >>
        /\ blobs["pool_trend"].data =
             << [k |-> PoolName(1), x |-> << DFeb >>, y |-> << 12 >>] >>

====
